---- MODULE Spec2Model ----
(***************************************************************************)
(* Order lifecycle and payment reconciliation of the proshop storefront    *)
(* (src/lib/actions/order.actions.ts over the Prisma schema).              *)
(*                                                                         *)
(* Every server action is a request run by a process of Procs.  A request  *)
(* is suspended at each await (database call, provider call); the steps    *)
(* of concurrent requests interleave there.  The database is the variable  *)
(* db; prisma.$transaction buffers its writes in the request's buf and     *)
(* installs them in one step at commit.  hist records what was committed   *)
(* on behalf of each order (history only, never read by the program).      *)
(***************************************************************************)
EXTENDS Integers, Sequences, FiniteSets, TLC

\* ---------------------------------------------------------------- bounds
MaxOrders == 2
MaxOps == 4
MaxCartQty == 2
InitStock == 3

Procs == {"r1", "r2"}
OrderIds == 1..MaxOrders
Products == {"p1", "p2"}
PayPalIds == {"pp1", "pp2"}
CaptureStatuses == {"COMPLETED", "PENDING"}

\* User.address (Json?) and User.paymentMethod (String?) once set
Addresses == {"a1", "a2"}
PaymentMethods == {"PayPal", "CashOnDelivery"}

\* the id of the signed-in user
SessionUser == "u1"

\* auth(): no session, a session without a user id, a session of the user
Sessions == {"absent", "nouser", "user"}

\* ------------------------------------------------------- result messages
MsgNotAuthenticated == "User is not authenticated"
MsgUserNotFound == "User not found"
MsgCurrency == "Price must have exactly two decimal places (e.g., 49.99)"
MsgEmptyCart == "Your cart is empty"
MsgNoAddress == "Please add a shipping address"
MsgNoPaymentMethod == "Please select a payment method"
MsgOrderCreated == "Order successfully created"
MsgUserUpdated == "User updated successfully"
MsgOrderNotFound == "Order not found"
MsgPayPalCreated == "PayPal order created successfully"
MsgPayPalError == "Error in paypal payment"
MsgPaidByPayPal == "Your order has been successfully paid by PayPal"
MsgAlreadyPaid == "Order is already paid"
MsgOrderDeleted == "Order deleted successfully"
MsgPaidByCOD == "Order paid successfully"
MsgNotPaid == "Order is not paid"
MsgDelivered == "Order delivered successfully"
MsgProviderError == "payment provider error"
MsgPersistenceError == "persistence error"

\* ------------------------------------------------------------ data shapes
\* Order.paymentResult is Json?: the null value of the column
NoPaymentResult == [id |-> "null", status |-> "null", email_address |-> "null", pricePaid |-> "null"]

\* the optional paymentResult argument of updateOrderToPaid left undefined
UndefinedPaymentResult == [id |-> "undefined", status |-> "undefined", email_address |-> "undefined", pricePaid |-> "undefined"]

\* an absent row of the Order table (findFirst returns null)
NoOrder ==
  [exists |-> FALSE, isPaid |-> FALSE, paidAt |-> 0, paymentResult |-> NoPaymentResult,
   isDelivered |-> FALSE, deliveredAt |-> 0, orderitems |-> << >>,
   itemsPrice |-> 0, shippingPrice |-> 0, taxPrice |-> 0, totalPrice |-> 0,
   userId |-> "null", shippingAddress |-> "null", paymentMethod |-> "null"]

\* no user row read (getUserById not reached)
NoUser == [id |-> "null", address |-> "null", paymentMethod |-> "null"]

\* the name, slug and image of a product, as the cart item carries them
ProductInfo(prod) == [name |-> <<"name", prod>>, slug |-> <<"slug", prod>>, image |-> <<"image", prod>>]

\* an absent row of the Cart table (getMyCart returns undefined)
NoCart == [exists |-> FALSE, items |-> << >>, itemsPrice |-> 0, shippingPrice |-> 0, taxPrice |-> 0, totalPrice |-> 0]

\* amounts of money are integers counting thousandths of the currency unit,
\* so that a number with more than two decimals can be told from one without
\* Product.price: 25.00 and 59.99
Price(prod) == IF prod = "p1" THEN 25000 ELSE 59990

\* round2: Math.round((value + Number.EPSILON) * 100) / 100, half up to the
\* nearest hundredth
Round2(value) == ((value + 5) \div 10) * 10

\* the currency validator: formatNumberWithDecimal(Number(value)) matches
\* /^\d+(\.\d{2})?$/, which a number of at most two decimals does
Currency(value) == value >= 0 /\ value % 10 = 0

RECURSIVE SumItems(_)
SumItems(items) ==
  IF items = << >> THEN 0
  ELSE Head(items).qty * Head(items).price + SumItems(Tail(items))

\* cart totals: items, flat shipping (10.00) below a threshold (100.00), tax
\* at a flat rate (10%), each at two decimals
CalcPrice(items) ==
  LET ip == Round2(SumItems(items))
      sp == Round2(IF ip >= 100000 THEN 0 ELSE 10000)
      tp == Round2(ip \div 10)
  IN [itemsPrice |-> ip, shippingPrice |-> sp, taxPrice |-> tp, totalPrice |-> Round2(ip + sp + tp)]

\* the writes a prisma.$transaction has issued and not yet committed
EmptyBuf ==
  [stockDec |-> [prod \in Products |-> 0], paidOrder |-> 0, paidAt |-> 0,
   paymentResult |-> UndefinedPaymentResult, paidVia |-> "none",
   newOrder |-> 0, newItems |-> << >>, newPrices |-> CalcPrice(<< >>), newOwner |-> NoUser,
   cartClear |-> FALSE]

NoCapture == [id |-> "none", status |-> "none"]
NoResult == [success |-> FALSE, message |-> "none"]

IdleLocal ==
  [op |-> "none", orderId |-> 0, order |-> NoOrder, found |-> NoOrder, cart |-> NoCart, usr |-> NoUser,
   capture |-> NoCapture,
   paymentResult |-> UndefinedPaymentResult, paypalId |-> "none",
   insertedId |-> 0, result |-> NoResult, wrote |-> {}, paidAtCall |-> FALSE,
   session |-> "unset", redirectTo |-> "none", thrown |-> FALSE, providerCalls |-> 0,
   providerFailed |-> FALSE]

VARIABLES db, user, pc, local, hist

vars == <<db, user, pc, local, hist>>

\* new Date(): requests are counted and the count serves as the clock
Now == hist.opCount

Init ==
  /\ db = [orders |-> [o \in OrderIds |-> NoOrder],
           stock |-> [prod \in Products |-> InitStock],
           cart |-> NoCart,
           nextId |-> 1]
  /\ user \in [id : {SessionUser}, address : {"null", "a1"}, paymentMethod : {"null", "PayPal"}]
  /\ pc = [p \in Procs |-> "idle"]
  /\ local = [p \in Procs |-> IdleLocal]
  /\ hist = [opCount |-> 0,
             decremented |-> [o \in OrderIds |-> [prod \in Products |-> 0]],
             paypalCommits |-> [o \in OrderIds |-> 0],
             codCommits |-> [o \in OrderIds |-> 0],
             paidQty |-> [o \in OrderIds |-> [prod \in Products |-> 0]],
             receipts |-> [o \in OrderIds |-> 0],
             recorded |-> [o \in OrderIds |-> "none"]]

\* --------------------------------------------------------- transactions
\* PaidUpdate with the isPaid flag left out of the update
PaidUpdateNoFlag(ord, now, pr) ==
  [ord EXCEPT !.paidAt = now, !.paymentResult = IF pr = UndefinedPaymentResult THEN @ ELSE pr]

\* PaidUpdate with paidAt left out of the update
PaidUpdateNoDate(ord, now, pr) ==
  [ord EXCEPT !.isPaid = TRUE, !.paymentResult = IF pr = UndefinedPaymentResult THEN @ ELSE pr]

\* tx.order.update data {isPaid: true, paidAt: new Date(), paymentResult};
\* an undefined paymentResult leaves the column as it is
PaidUpdate(ord, now, pr) ==
  [ord EXCEPT !.isPaid = TRUE, !.paidAt = now,
              !.paymentResult = IF pr = UndefinedPaymentResult THEN @ ELSE pr]

\* DeliveredUpdate that stamps paidAt as well
DeliveredUpdateStampsPaidAt(ord, now) ==
  [ord EXCEPT !.isDelivered = TRUE, !.deliveredAt = now, !.paidAt = now]

\* prisma.order.update data {isDelivered: true, deliveredAt: new Date()}
DeliveredUpdate(ord, now) == [ord EXCEPT !.isDelivered = TRUE, !.deliveredAt = now]

\* PayPalIdUpdate that writes the pricePaid "0" of the new payment result
\* into the order's total
PayPalIdUpdateZeroesTotal(ord, id) ==
  [ord EXCEPT !.totalPrice = 0,
              !.paymentResult = [id |-> id, status |-> "", email_address |-> "", pricePaid |-> "0"]]

\* PayPalIdUpdate that puts the order back to awaiting payment
PayPalIdUpdateUnpays(ord, id) ==
  [ord EXCEPT !.isPaid = FALSE, !.paidAt = 0,
              !.paymentResult = [id |-> id, status |-> "", email_address |-> "", pricePaid |-> "0"]]

\* prisma.order.update data {paymentResult: {id, email_address: "", status: "", pricePaid: "0"}}
PayPalIdUpdate(ord, id) ==
  [ord EXCEPT !.paymentResult = [id |-> id, status |-> "", email_address |-> "", pricePaid |-> "0"]]

\* ClearedCart with the totals left as they were
ClearedCartItemsOnly(c) == [c EXCEPT !.items = << >>]

\* tx.cart.update data {items: [], totalPrice: 0, shippingPrice: 0, taxPrice: 0, itemsPrice: 0}
ClearedCart(c) ==
  [c EXCEPT !.items = << >>, !.totalPrice = 0, !.shippingPrice = 0, !.taxPrice = 0, !.itemsPrice = 0]

\* NewOrderRow with the total taken from the price of the items
NewOrderRowTotalIsItems(b) ==
  [exists |-> TRUE, isPaid |-> FALSE, paidAt |-> 0, paymentResult |-> NoPaymentResult,
   isDelivered |-> FALSE, deliveredAt |-> 0, orderitems |-> b.newItems,
   itemsPrice |-> b.newPrices.itemsPrice, shippingPrice |-> b.newPrices.shippingPrice,
   taxPrice |-> b.newPrices.taxPrice, totalPrice |-> b.newPrices.itemsPrice,
   userId |-> b.newOwner.id, shippingAddress |-> b.newOwner.address,
   paymentMethod |-> b.newOwner.paymentMethod]

\* the row tx.order.create inserts, with the items inserted for it so far
NewOrderRow(b) ==
  [exists |-> TRUE, isPaid |-> FALSE, paidAt |-> 0, paymentResult |-> NoPaymentResult,
   isDelivered |-> FALSE, deliveredAt |-> 0, orderitems |-> b.newItems,
   itemsPrice |-> b.newPrices.itemsPrice, shippingPrice |-> b.newPrices.shippingPrice,
   taxPrice |-> b.newPrices.taxPrice, totalPrice |-> b.newPrices.totalPrice,
   userId |-> b.newOwner.id, shippingAddress |-> b.newOwner.address,
   paymentMethod |-> b.newOwner.paymentMethod]

\* ApplyTx with the stock written as an absolute value computed from a copy
\* of the product row read when the product was listed
ApplyTxAbsoluteStock(d, b) ==
  [d EXCEPT
     !.orders = [o \in OrderIds |->
                   IF o = b.newOrder THEN NewOrderRow(b)
                   ELSE IF o = b.paidOrder /\ d.orders[o].exists
                        THEN PaidUpdate(d.orders[o], b.paidAt, b.paymentResult)
                        ELSE d.orders[o]],
     !.stock = [prod \in Products |->
                  IF b.stockDec[prod] # 0 THEN InitStock - b.stockDec[prod] ELSE d.stock[prod]],
     !.cart = IF b.cartClear THEN ClearedCart(d.cart) ELSE d.cart]

\* the database after the writes of b are installed
ApplyTx(d, b) ==
  [d EXCEPT
     !.orders = [o \in OrderIds |->
                   IF o = b.newOrder THEN NewOrderRow(b)
                   ELSE IF o = b.paidOrder /\ d.orders[o].exists
                        THEN PaidUpdate(d.orders[o], b.paidAt, b.paymentResult)
                        ELSE d.orders[o]],
     !.stock = [prod \in Products |-> d.stock[prod] - b.stockDec[prod]],
     !.cart = IF b.cartClear THEN ClearedCart(d.cart) ELSE d.cart]

\* the history after the writes of b are installed on behalf of order o
RecordTx(h, b, o) ==
  IF o = 0 THEN h
  ELSE [h EXCEPT
          !.decremented[o] = [prod \in Products |-> @[prod] + b.stockDec[prod]],
          !.paypalCommits[o] = IF b.paidOrder = o /\ b.paidVia = "paypal" THEN @ + 1 ELSE @,
          !.codCommits[o] = IF b.paidOrder = o /\ b.paidVia = "cod" THEN @ + 1 ELSE @,
          !.paidQty[o] = IF b.paidOrder = o /\ h.paypalCommits[o] + h.codCommits[o] = 0
                         THEN b.stockDec ELSE @]

\* what the writes of b have touched
Touched(b) ==
  (IF \E prod \in Products : b.stockDec[prod] # 0 THEN {"stock"} ELSE {})
  \cup (IF b.paidOrder # 0 \/ b.newOrder # 0 THEN {"order"} ELSE {})
  \cup (IF b.cartClear THEN {"cart"} ELSE {})

\* PayTxOnError without the transaction: the writes issued so far stay
PayTxNoRollback(b) == b

\* CreateTxOnError without the transaction: the writes issued so far stay
CreateTxNoRollback(b) == b

\* prisma.$transaction of updateOrderToPaid: what remains of the writes
\* issued so far when the callback throws (rollback: nothing)
PayTxOnError(b) == EmptyBuf

\* prisma.$transaction of createOrder: what remains of the writes issued so
\* far when the callback throws (rollback: nothing)
CreateTxOnError(b) == EmptyBuf

\* ------------------------------------------------------------- guards
\* VerificationFails with the comparison of the ids left out
VerificationFailsStatusOnly(ord, capture) == capture.status # "COMPLETED"

\* AlreadyPaid with the guard left out
AlreadyPaidNever(ord) == FALSE

\* NotPaid with the guard left out
NotPaidNever(ord) == FALSE

\* NotPaid with the test inverted
NotPaidInverted(ord) == ord.isPaid

\* OrderMissing with the test left out
OrderMissingNever(ord) == FALSE

\* if (!order) throw new Error("Order not found") (the else branch of
\* if (order) in createPayPalOrder)
OrderMissing(ord) == ~ord.exists

\* approvePayPalOrder: the throw condition on the capture result
VerificationFails(ord, capture) ==
  capture.id # ord.paymentResult.id \/ capture.status # "COMPLETED"

\* updateOrderToPaid: if (order.isPaid) throw
AlreadyPaid(ord) == ord.isPaid

\* deliverOrder: if (!order.isPaid) throw
NotPaid(ord) == ~ord.isPaid

\* ------------------------------------------------------------- errors
\* new Error(message)
NewError(message) == [name |-> "Error", code |-> "none", message |-> message]

\* an error thrown by the Prisma client (a failed statement or commit)
\* the error insertOrderSchema.parse throws when a price fails the currency
\* validator
ZodError == [name |-> "ZodError", code |-> "none", message |-> MsgCurrency]

PrismaError == [name |-> "PrismaClientKnownRequestError", code |-> "P2025", message |-> MsgPersistenceError]

\* an error thrown by the provider client (a failed or rejected HTTP call)
ProviderError == NewError(MsgProviderError)

\* formatError: the field messages of a ZodError, '<Field> already exists'
\* for the Prisma unique-constraint error P2002, else the error's message
FormatError(err) ==
  IF err.name = "ZodError" THEN err.message
  ELSE IF err.name = "PrismaClientKnownRequestError" /\ err.code = "P2002" THEN "Field already exists"
  ELSE err.message

\* CatchError without the catch block: the error goes to the caller
CatchErrorRethrows(l, err) == [l EXCEPT !.thrown = TRUE]

\* catch (err) { return {success: false, message: formatError(err)} } of the
\* exported actions (createOrder rethrows redirect errors only, and its body
\* raises none)
CatchError(l, err) == [l EXCEPT !.result = [success |-> FALSE, message |-> FormatError(err)]]

\* CallProvider repeated once after a failure
CallProviderRetry(l, ok) ==
  [l EXCEPT !.providerCalls = @ + (IF ok THEN 1 ELSE 2), !.providerFailed = ~ok]

\* await paypal.createOrder(...) / await paypal.capturePayment(...): one call
\* of the provider, which answers (ok) or fails
CallProvider(l, ok) == [l EXCEPT !.providerCalls = @ + 1, !.providerFailed = ~ok]

\* ------------------------------------------------------------- helpers
Goto(p, label, l) ==
  /\ pc' = [pc EXCEPT ![p] = label]
  /\ local' = [local EXCEPT ![p] = l]

\* the action returns {success, message}
Finish(p, l, success, message) ==
  Goto(p, "done", [l EXCEPT !.result = [success |-> success, message |-> message]])

\* an error is thrown inside the try block of the action
Throw(p, l, err) == Goto(p, "done", CatchError(l, err))

\* no response is waiting to be delivered
NoneDone == \A q \in Procs : pc[q] # "done"

\* the request slot a new request takes: the first idle one
FirstIdle(p) == pc[p] = "idle" /\ (p = "r2" => pc["r1"] # "idle")

\* a request arrives
Begin(p) ==
  /\ NoneDone
  /\ FirstIdle(p)
  /\ hist.opCount < MaxOps
  /\ hist' = [hist EXCEPT !.opCount = @ + 1]

BeginLocal(op, o) ==
  [IdleLocal EXCEPT !.op = op, !.orderId = o,
                    !.paidAtCall = IF o \in OrderIds THEN db.orders[o].exists /\ db.orders[o].isPaid ELSE FALSE]

\* a transaction ends: its writes b (all of them at commit, PayTxOnError or
\* CreateTxOnError of them on error) reach the database
EndTx(p, b, o) ==
  /\ db' = ApplyTx(db, b)
  /\ hist' = RecordTx(hist, b, o)


\* ------------------------------------------------- cart and user (callers)
\* addItemToCart: a product already in the cart gets its quantity raised,
\* a new one is appended; the totals are recomputed from the items
AddItem(items, prod) ==
  IF \E k \in 1..Len(items) : items[k].productId = prod
  THEN [k \in 1..Len(items) |->
          IF items[k].productId = prod THEN [items[k] EXCEPT !.qty = @ + 1] ELSE items[k]]
  ELSE Append(items, [productId |-> prod, qty |-> 1, price |-> Price(prod), name |-> ProductInfo(prod).name,
                      slug |-> ProductInfo(prod).slug, image |-> ProductInfo(prod).image])

RECURSIVE CartQty(_)
CartQty(items) == IF items = << >> THEN 0 ELSE Head(items).qty + CartQty(Tail(items))

AddItemToCart(prod) ==
  /\ NoneDone
  /\ CartQty(db.cart.items) < MaxCartQty
  /\ LET items == AddItem(db.cart.items, prod)
         t == CalcPrice(items)
     IN db' = [db EXCEPT !.cart = [exists |-> TRUE, items |-> items, itemsPrice |-> t.itemsPrice,
                                   shippingPrice |-> t.shippingPrice, taxPrice |-> t.taxPrice,
                                   totalPrice |-> t.totalPrice]]
  /\ UNCHANGED <<user, pc, local, hist>>

\* updateUserAddress, called with the user's session: prisma.user.findFirst,
\* shippingAddressSchema.parse (valid: the data passes), prisma.user.update
\* {address} (fail: the statement throws)
UpdateUserAddress(p, address, valid, fail) ==
  /\ Begin(p)
  /\ LET l == [BeginLocal("updateUserAddress", 0) EXCEPT !.session = "user"] IN
       IF ~valid THEN /\ UNCHANGED user
                      /\ Throw(p, l, ZodError)
       ELSE IF fail THEN /\ UNCHANGED user
                         /\ Throw(p, l, PrismaError)
       ELSE /\ user' = [user EXCEPT !.address = address]
            /\ Finish(p, [l EXCEPT !.wrote = @ \cup {"user"}], TRUE, MsgUserUpdated)
  /\ UNCHANGED db

\* updateUserPaymentMethod, called with the user's session:
\* prisma.user.findFirst, paymentMethodSchema.parse, prisma.user.update
\* {paymentMethod: paymentMethod.type}
UpdateUserPaymentMethod(p, type, valid, fail) ==
  /\ Begin(p)
  /\ LET l == [BeginLocal("updateUserPaymentMethod", 0) EXCEPT !.session = "user"] IN
       IF ~valid THEN /\ UNCHANGED user
                      /\ Throw(p, l, ZodError)
       ELSE IF fail THEN /\ UNCHANGED user
                         /\ Throw(p, l, PrismaError)
       ELSE /\ user' = [user EXCEPT !.paymentMethod = type]
            /\ Finish(p, [l EXCEPT !.wrote = @ \cup {"user"}], TRUE, MsgUserUpdated)
  /\ UNCHANGED db

\* ------------------------------------------------------------ createOrder
\* createOrder requests that may still insert an order row
PendingCreates == {q \in Procs : local[q].op = "createOrder" /\ local[q].insertedId = 0 /\ pc[q] # "done"}

\* insertOrderSchema: the four prices copied from the cart pass the currency
\* validator
InsertOrderSchemaOk(cart) ==
  /\ Currency(cart.itemsPrice)
  /\ Currency(cart.shippingPrice)
  /\ Currency(cart.taxPrice)
  /\ Currency(cart.totalPrice)

\* CreateOrderCheck with the check of the shipping address left out
CreateOrderCheckNoAddress(session, cart, usr) ==
  IF session = "absent" THEN "Unauthenticated"
  ELSE IF session = "nouser" THEN "UserNotFound"
  ELSE IF ~cart.exists \/ Len(cart.items) = 0 THEN "EmptyCart"
  ELSE IF usr.paymentMethod = "null" THEN "MissingPaymentMethod"
  ELSE "ok"

\* the preconditions of createOrder in the order the code tests them: the
\* first one that is not met
CreateOrderCheck(session, cart, usr) ==
  IF session = "absent" THEN "Unauthenticated"
  ELSE IF session = "nouser" THEN "UserNotFound"
  ELSE IF ~cart.exists \/ Len(cart.items) = 0 THEN "EmptyCart"
  ELSE IF usr.address = "null" THEN "MissingAddress"
  ELSE IF usr.paymentMethod = "null" THEN "MissingPaymentMethod"
  ELSE "ok"

\* auth(), getMyCart(), getUserById(), the precondition checks and
\* insertOrderSchema.parse
CreateOrderStart(p) ==
  /\ Begin(p)
  /\ db.nextId + Cardinality(PendingCreates) <= MaxOrders
  /\ \E session \in Sessions :
       LET l == [BeginLocal("createOrder", 0) EXCEPT !.session = session,
                                                     !.cart = IF session = "absent" THEN NoCart ELSE db.cart,
                                                     !.usr = IF session = "user" THEN user ELSE NoUser]
           unmet == CreateOrderCheck(session, l.cart, l.usr)
       IN
         IF unmet = "Unauthenticated" THEN Throw(p, l, NewError(MsgNotAuthenticated))
         ELSE IF unmet = "UserNotFound" THEN Throw(p, l, NewError(MsgUserNotFound))
         ELSE IF unmet = "EmptyCart"
              THEN Finish(p, [l EXCEPT !.redirectTo = "/cart"], FALSE, MsgEmptyCart)
         ELSE IF unmet = "MissingAddress"
              THEN Finish(p, [l EXCEPT !.redirectTo = "/shipping-address"], FALSE, MsgNoAddress)
         ELSE IF unmet = "MissingPaymentMethod"
              THEN Finish(p, [l EXCEPT !.redirectTo = "/payment-method"], FALSE, MsgNoPaymentMethod)
         ELSE IF ~InsertOrderSchemaOk(l.cart) THEN Throw(p, l, ZodError)
         ELSE Goto(p, "co_tx", l)
  /\ UNCHANGED <<db, user>>

\* CreateBuf with the quantity of the cart item not copied (the column
\* default of one unit)
CreateBufUnitQty(cart, usr, id, k) ==
  [EmptyBuf EXCEPT !.newOrder = id,
                   !.newOwner = usr,
                   !.newItems = [j \in 1..k |-> [cart.items[j] EXCEPT !.qty = 1]],
                   !.newPrices = [itemsPrice |-> cart.itemsPrice, shippingPrice |-> cart.shippingPrice,
                                  taxPrice |-> cart.taxPrice, totalPrice |-> cart.totalPrice]]

\* the writes of the createOrder transaction once tx.order.create has
\* inserted row id (userId, shippingAddress and paymentMethod of the user
\* read, the four prices of the cart read) and the first k items of the cart
\* have been inserted, each with all the fields of the cart item
CreateBuf(cart, usr, id, k) ==
  [EmptyBuf EXCEPT !.newOrder = id,
                   !.newOwner = usr,
                   !.newItems = SubSeq(cart.items, 1, k),
                   !.newPrices = [itemsPrice |-> cart.itemsPrice, shippingPrice |-> cart.shippingPrice,
                                  taxPrice |-> cart.taxPrice, totalPrice |-> cart.totalPrice]]

\* prisma.$transaction: tx.order.create, tx.orderItem.create per cart item,
\* tx.cart.update clearing the cart, commit.  The statement numbered f
\* throws (0: order.create, j: the j-th orderItem.create, N+1: cart.update
\* or the commit), or none does (f = N+2) and the transaction commits.
CreateOrderTx(p) ==
  /\ NoneDone
  /\ pc[p] = "co_tx"
  /\ LET l == local[p]
         N == Len(l.cart.items)
         id == db.nextId
     IN \E f \in 0..(N + 2) :
          IF f = 0
          THEN /\ UNCHANGED <<db, hist>>
               /\ Throw(p, l, PrismaError)
          ELSE IF f <= N + 1
          THEN LET b == CreateTxOnError(CreateBuf(l.cart, l.usr, id, f - 1)) IN
               /\ db' = [ApplyTx(db, b) EXCEPT !.nextId = id + 1]
               /\ hist' = hist
               /\ Throw(p, [l EXCEPT !.insertedId = id, !.wrote = @ \cup Touched(b)], PrismaError)
          ELSE LET b == [CreateBuf(l.cart, l.usr, id, N) EXCEPT !.cartClear = TRUE] IN
               /\ db' = [ApplyTx(db, b) EXCEPT !.nextId = id + 1]
               /\ hist' = hist
               /\ Finish(p, [l EXCEPT !.insertedId = id, !.wrote = @ \cup Touched(b), !.redirectTo = "/order/id"],
                         TRUE, MsgOrderCreated)
  /\ UNCHANGED user

\* ------------------------------------------------------ createPayPalOrder
\* prisma.order.findFirst, then paypal.createOrder(Number(order.totalPrice)):
\* a provider order id, or an error
CreatePayPalOrderStart(p, o) ==
  /\ Begin(p)
  /\ LET l == [BeginLocal("createPayPalOrder", o) EXCEPT !.order = db.orders[o]] IN
       IF OrderMissing(l.order) THEN Throw(p, l, NewError(MsgOrderNotFound))
       ELSE \/ Throw(p, CallProvider(l, FALSE), ProviderError)
            \/ \E id \in PayPalIds : Goto(p, "cpo_update", [CallProvider(l, TRUE) EXCEPT !.paypalId = id])
  /\ UNCHANGED <<db, user>>

\* prisma.order.update recording the provider order id
CreatePayPalOrderUpdate(p) ==
  /\ NoneDone
  /\ pc[p] = "cpo_update"
  /\ LET l == local[p]
         o == l.orderId
     IN \E fail \in BOOLEAN :
          IF fail \/ ~db.orders[o].exists
          THEN /\ UNCHANGED <<db, hist>>
               /\ Throw(p, l, PrismaError)
          ELSE /\ db' = [db EXCEPT !.orders[o] = PayPalIdUpdate(@, l.paypalId)]
               /\ hist' = [hist EXCEPT !.recorded[o] = l.paypalId]
               /\ Finish(p, [l EXCEPT !.wrote = @ \cup {"order"}], TRUE, MsgPayPalCreated)
  /\ UNCHANGED user

\* ----------------------------------------------------- approvePayPalOrder
\* prisma.order.findFirst, then paypal.capturePayment(data.orderID) (a
\* capture, or an error) and the check of its result
ApprovePayPalOrderStart(p, o) ==
  /\ Begin(p)
  /\ LET l == [BeginLocal("approvePayPalOrder", o) EXCEPT !.order = db.orders[o]] IN
       IF OrderMissing(l.order) THEN Throw(p, l, NewError(MsgOrderNotFound))
       ELSE \/ Throw(p, CallProvider(l, FALSE), ProviderError)
            \/ \E capture \in [id : PayPalIds, status : CaptureStatuses] :
                 IF VerificationFails(l.order, capture)
                 THEN Throw(p, [CallProvider(l, TRUE) EXCEPT !.capture = capture], NewError(MsgPayPalError))
                 ELSE Goto(p, "uotp_find",
                           [CallProvider(l, TRUE) EXCEPT !.capture = capture,
                                     !.paymentResult =
                                        [id |-> capture.id, status |-> capture.status,
                                         email_address |-> "payer", pricePaid |-> "amount"]])
  /\ UNCHANGED <<db, user>>

\* ------------------------------------------------------ updateOrderToPaid
PaidVia(l) == IF l.op = "approvePayPalOrder" THEN "paypal" ELSE "cod"

\* prisma.order.findFirst including orderitems, and the two throws
UpdateOrderToPaidFind(p, l) ==
  LET m == [l EXCEPT !.found = db.orders[l.orderId]] IN
    IF OrderMissing(m.found) THEN Throw(p, m, NewError(MsgOrderNotFound))
    ELSE IF AlreadyPaid(m.found) THEN Throw(p, m, NewError(MsgAlreadyPaid))
    ELSE Goto(p, "uotp_tx", m)

\* updateOrderToPaid called by approvePayPalOrder
ApprovePayPalOrderUpdate(p) ==
  /\ NoneDone
  /\ pc[p] = "uotp_find"
  /\ UpdateOrderToPaidFind(p, local[p])
  /\ UNCHANGED <<db, user, hist>>

\* ------------------------------------------------- updateOrderToPaidByCOD
\* updateOrderToPaid({orderId}) called by updateOrderToPaidByCOD
UpdateOrderToPaidByCODStart(p, o) ==
  /\ Begin(p)
  /\ UpdateOrderToPaidFind(p, BeginLocal("updateOrderToPaidByCOD", o))
  /\ UNCHANGED <<db, user>>

\* StockDec taking one unit per order item
RECURSIVE StockDecOne(_, _)
StockDecOne(items, k) ==
  IF k = 0 THEN [prod \in Products |-> 0]
  ELSE [StockDecOne(items, k - 1) EXCEPT ![items[k].productId] = @ + 1]

\* the stock decrements issued for the first k order items
RECURSIVE StockDec(_, _)
StockDec(items, k) ==
  IF k = 0 THEN [prod \in Products |-> 0]
  ELSE [StockDec(items, k - 1) EXCEPT ![items[k].productId] = @ + items[k].qty]

\* prisma.$transaction: tx.product.update {stock: {increment: -item.qty}}
\* per order item, tx.order.update setting the order to paid, commit.  The
\* statement numbered f throws (j: the j-th product.update, N+1: order.update
\* or the commit), or none does (f = N+2) and the transaction commits.
UpdateOrderToPaidTx(p) ==
  /\ NoneDone
  /\ pc[p] = "uotp_tx"
  /\ LET l == local[p]
         o == l.orderId
         N == Len(l.found.orderitems)
     IN \E f \in 1..(N + 2) :
          IF f <= N + 1 \/ ~db.orders[o].exists
          THEN LET b == PayTxOnError([EmptyBuf EXCEPT !.stockDec = StockDec(l.found.orderitems,
                                                                 IF f <= N THEN f - 1 ELSE N)]) IN
               /\ EndTx(p, b, o)
               /\ Throw(p, [l EXCEPT !.wrote = @ \cup Touched(b)], PrismaError)
          ELSE LET b == [EmptyBuf EXCEPT !.stockDec = StockDec(l.found.orderitems, N),
                                         !.paidOrder = o, !.paidAt = Now,
                                         !.paymentResult = l.paymentResult, !.paidVia = PaidVia(l)] IN
               /\ EndTx(p, b, o)
               /\ Goto(p, "uotp_refetch", [l EXCEPT !.wrote = @ \cup Touched(b)])
  /\ UNCHANGED user

\* the receipts sent once updateOrderToPaid has fetched the updated order:
\* the function ends there, sendPurchaseReceipt is called nowhere
ReceiptsAfterPay(h, o) == h

\* prisma.order.findFirst of the updated order, then the caller's return
UpdateOrderToPaidRefetch(p) ==
  /\ NoneDone
  /\ pc[p] = "uotp_refetch"
  /\ LET l == local[p] IN
       IF ~db.orders[l.orderId].exists
       THEN /\ hist' = hist
            /\ Throw(p, l, NewError(MsgOrderNotFound))
       ELSE /\ hist' = ReceiptsAfterPay(hist, l.orderId)
            /\ Finish(p, l, TRUE, IF l.op = "approvePayPalOrder" THEN MsgPaidByPayPal ELSE MsgPaidByCOD)
  /\ UNCHANGED <<db, user>>

\* ------------------------------------------------------------ deliverOrder
\* prisma.order.findFirst and the two throws
DeliverOrderStart(p, o) ==
  /\ Begin(p)
  /\ LET l == [BeginLocal("deliverOrder", o) EXCEPT !.order = db.orders[o]] IN
       IF OrderMissing(l.order) THEN Throw(p, l, NewError(MsgOrderNotFound))
       ELSE IF NotPaid(l.order) THEN Throw(p, l, NewError(MsgNotPaid))
       ELSE Goto(p, "do_update", l)
  /\ UNCHANGED <<db, user>>

\* prisma.order.update setting the order to delivered
DeliverOrderUpdate(p) ==
  /\ NoneDone
  /\ pc[p] = "do_update"
  /\ LET l == local[p]
         o == l.orderId
     IN \E fail \in BOOLEAN :
          IF fail \/ ~db.orders[o].exists
          THEN /\ UNCHANGED db
               /\ Throw(p, l, PrismaError)
          ELSE /\ db' = [db EXCEPT !.orders[o] = DeliveredUpdate(@, Now)]
               /\ Finish(p, [l EXCEPT !.wrote = @ \cup {"order"}], TRUE, MsgDelivered)
  /\ UNCHANGED <<user, hist>>

\* ------------------------------------------------------------- deleteOrder
\* prisma.order.delete (the order items go with it: onDelete Cascade)
DeleteOrder(p, o) ==
  /\ Begin(p)
  /\ LET l == BeginLocal("deleteOrder", o) IN
     \E fail \in BOOLEAN :
       IF fail \/ ~db.orders[o].exists
       THEN /\ UNCHANGED db
            /\ Throw(p, l, PrismaError)
       ELSE /\ db' = [db EXCEPT !.orders[o] = NoOrder]
            /\ Finish(p, [l EXCEPT !.wrote = @ \cup {"order"}], TRUE, MsgOrderDeleted)
  /\ UNCHANGED user

\* the response is delivered and the request is over
Return(p) ==
  /\ pc[p] = "done"
  /\ Goto(p, "idle", IdleLocal)
  /\ UNCHANGED <<db, user, hist>>

\* ----------------------------------------------------------- specification
Next ==
  \/ \E prod \in Products : AddItemToCart(prod)
  \/ \E p \in Procs : CreateOrderStart(p)
  \/ \E p \in Procs : CreateOrderTx(p)
  \/ \E p \in Procs, o \in OrderIds : CreatePayPalOrderStart(p, o)
  \/ \E p \in Procs : CreatePayPalOrderUpdate(p)
  \/ \E p \in Procs, o \in OrderIds : ApprovePayPalOrderStart(p, o)
  \/ \E p \in Procs, o \in OrderIds : UpdateOrderToPaidByCODStart(p, o)
  \/ \E p \in Procs : ApprovePayPalOrderUpdate(p)
  \/ \E p \in Procs : UpdateOrderToPaidTx(p)
  \/ \E p \in Procs : UpdateOrderToPaidRefetch(p)
  \/ \E p \in Procs, o \in OrderIds : DeliverOrderStart(p, o)
  \/ \E p \in Procs : DeliverOrderUpdate(p)
  \/ \E p \in Procs, o \in OrderIds : DeleteOrder(p, o)
  \/ \E p \in Procs : Return(p)

Spec == Init /\ [][Next]_vars

TypeOK ==
  /\ \A o \in OrderIds : db.orders[o].exists \in BOOLEAN
  /\ \A p \in Procs : pc[p] \in {"idle", "done", "co_tx", "cpo_update", "uotp_find", "uotp_tx", "uotp_refetch", "do_update"}

\* one request at a time: a request arrives only when no other is running
Sequential == \A p \in Procs : (pc[p] = "idle" /\ pc'[p] # "idle") => \A q \in Procs : pc[q] = "idle"

NextSeq == Next /\ Sequential

SpecSeq == Init /\ [][NextSeq]_vars

\* ------------------------------------------------ snapshot specification
\* the user changes the stored address and payment method while orders are
\* created, paid on delivery and delivered
NextSnapshot ==
  \/ \E prod \in Products : AddItemToCart(prod)
  \/ \E p \in Procs, address \in Addresses, valid, fail \in BOOLEAN : UpdateUserAddress(p, address, valid, fail)
  \/ \E p \in Procs, type \in PaymentMethods, valid, fail \in BOOLEAN : UpdateUserPaymentMethod(p, type, valid, fail)
  \/ \E p \in Procs : CreateOrderStart(p)
  \/ \E p \in Procs : CreateOrderTx(p)
  \/ \E p \in Procs, o \in OrderIds : UpdateOrderToPaidByCODStart(p, o)
  \/ \E p \in Procs : UpdateOrderToPaidTx(p)
  \/ \E p \in Procs : UpdateOrderToPaidRefetch(p)
  \/ \E p \in Procs, o \in OrderIds : DeliverOrderStart(p, o)
  \/ \E p \in Procs : DeliverOrderUpdate(p)
  \/ \E p \in Procs : Return(p)

SpecSnapshot == Init /\ [][NextSnapshot]_vars

\* ------------------------------------------------- pricing specification
\* createOrder alone, on carts of any of the sample prices and quantities
PriceSamples == {0, 10, 50, 25000, 59990, 99990}

\* the carts with at most one line per product
SampleLines ==
  {[productId |-> prod, qty |-> q, price |-> c, name |-> ProductInfo(prod).name,
    slug |-> ProductInfo(prod).slug, image |-> ProductInfo(prod).image] :
     prod \in Products, q \in 0..MaxCartQty, c \in PriceSamples}

SampleCarts ==
  {items \in UNION {[1..n -> SampleLines] : n \in 0..Cardinality(Products)} :
     \A i, j \in 1..Len(items) : i # j => items[i].productId # items[j].productId}

InitPrice ==
  /\ \E items \in SampleCarts :
       LET t == CalcPrice(items) IN
       db = [orders |-> [o \in OrderIds |-> NoOrder],
             stock |-> [prod \in Products |-> InitStock],
             cart |-> [exists |-> TRUE, items |-> items, itemsPrice |-> t.itemsPrice,
                       shippingPrice |-> t.shippingPrice, taxPrice |-> t.taxPrice,
                       totalPrice |-> t.totalPrice],
             nextId |-> 1]
  /\ user = [id |-> SessionUser, address |-> "a1", paymentMethod |-> "PayPal"]
  /\ pc = [p \in Procs |-> "idle"]
  /\ local = [p \in Procs |-> IdleLocal]
  /\ hist = [opCount |-> 0,
             decremented |-> [o \in OrderIds |-> [prod \in Products |-> 0]],
             paypalCommits |-> [o \in OrderIds |-> 0],
             codCommits |-> [o \in OrderIds |-> 0],
             paidQty |-> [o \in OrderIds |-> [prod \in Products |-> 0]],
             receipts |-> [o \in OrderIds |-> 0],
             recorded |-> [o \in OrderIds |-> "none"]]

NextPrice ==
  \/ \E p \in Procs : CreateOrderStart(p)
  \/ \E p \in Procs : CreateOrderTx(p)
  \/ \E p \in Procs : Return(p)

SpecPrice == InitPrice /\ [][NextPrice]_vars

\* ------------------------------------------------------------------ claims
PayOps == {"approvePayPalOrder", "updateOrderToPaidByCOD"}

Done(p, op) == pc[p] = "done" /\ local[p].op = op

\* the quantity of product prod among the items of an order row
RECURSIVE ItemQty(_, _)
ItemQty(items, prod) ==
  IF items = << >> THEN 0
  ELSE (IF Head(items).productId = prod THEN Head(items).qty ELSE 0) + ItemQty(Tail(items), prod)

RECURSIVE SumOver(_, _)
SumOver(f, S) == IF S = {} THEN 0 ELSE LET x == CHOOSE y \in S : TRUE IN f[x] + SumOver(f, S \ {x})

\* C1 (as claimed): of concurrent approvePayPalOrder calls on one order at
\* most one commits the pay transaction, so that the stock of each product of
\* the order is decremented once; the other call ends with 'Order is already paid'.
C1_ConcurrentPayOnce ==
  \A o \in OrderIds :
    /\ hist.paypalCommits[o] <= 1
    /\ \A prod \in Products :
         (db.orders[o].exists /\ hist.codCommits[o] = 0)
           => hist.decremented[o][prod] <= ItemQty(db.orders[o].orderitems, prod)

\* C2: with one request at a time, a pay call (PayPal approval or COD) on an
\* order that was already paid when the call was made changes nothing and,
\* unless the provider fails or rejects the capture, ends with 'Order is
\* already paid'; no order has its pay transaction committed twice and the
\* stock taken for a paid order is exactly its item quantities.
C2_SecondPayFails ==
  /\ \A p \in Procs :
       (pc[p] = "done" /\ local[p].op \in PayOps /\ local[p].paidAtCall)
         => /\ ~local[p].result.success
            /\ local[p].wrote = {}
            /\ local[p].result.message \in {MsgAlreadyPaid, MsgProviderError, MsgPayPalError}
            /\ (local[p].op = "updateOrderToPaidByCOD" => local[p].result.message = MsgAlreadyPaid)
            /\ (local[p].capture.status = "COMPLETED" /\ local[p].capture.id = local[p].order.paymentResult.id
                  => local[p].result.message = MsgAlreadyPaid)
  /\ \A o \in OrderIds :
       /\ hist.paypalCommits[o] + hist.codCommits[o] <= 1
       /\ \A prod \in Products :
            db.orders[o].exists =>
              hist.decremented[o][prod] =
                IF db.orders[o].isPaid THEN ItemQty(db.orders[o].orderitems, prod) ELSE 0

C2_Witness ==
  \E p \in Procs :
    /\ Done(p, "approvePayPalOrder")
    /\ local[p].paidAtCall
    /\ local[p].result.message = MsgAlreadyPaid
    /\ hist.paypalCommits[local[p].orderId] = 1
    /\ \E prod \in Products : hist.decremented[local[p].orderId][prod] > 0

\* C3: the stock decrements and the paid flag of an order go together in
\* every state, whatever statement of the pay transaction fails: nothing is
\* taken from the stock for an order that is unpaid, an order that is paid has
\* had at least its item quantities taken, and the stock of a product is the
\* initial stock less what was taken for the orders.
C3_PayAtomic ==
  /\ \A o \in OrderIds : \A prod \in Products :
       db.orders[o].exists =>
         /\ ~db.orders[o].isPaid => hist.decremented[o][prod] = 0
         /\ db.orders[o].isPaid => hist.decremented[o][prod] >= ItemQty(db.orders[o].orderitems, prod)
  /\ \A prod \in Products :
       db.stock[prod] = InitStock - SumOver([o \in OrderIds |-> hist.decremented[o][prod]], OrderIds)

C3_Witness ==
  \E p \in Procs :
    /\ pc[p] = "done"
    /\ local[p].op \in PayOps
    /\ local[p].result.message = MsgPersistenceError
    /\ Len(local[p].found.orderitems) = 2
    /\ db.orders[local[p].orderId].exists
    /\ ~db.orders[local[p].orderId].isPaid

\* C4: an approvePayPalOrder whose capture has an id other than the provider
\* order id read from the order, or a status other than COMPLETED, returns the
\* failure 'Error in paypal payment' and has written nothing (order and stock
\* are as the call found them).
C4_VerificationFailure ==
  \A p \in Procs :
    (/\ Done(p, "approvePayPalOrder")
     /\ local[p].capture # NoCapture
     /\ (local[p].capture.id # local[p].order.paymentResult.id \/ local[p].capture.status # "COMPLETED"))
      => /\ local[p].result = [success |-> FALSE, message |-> MsgPayPalError]
         /\ local[p].wrote = {}
         /\ db.orders[local[p].orderId] = local[p].order

C4_Witness ==
  \E p \in Procs :
    /\ Done(p, "approvePayPalOrder")
    /\ local[p].order.paymentResult.id \in PayPalIds
    /\ local[p].capture.status = "COMPLETED"
    /\ local[p].capture.id # local[p].order.paymentResult.id
    /\ ~local[p].order.isPaid
    /\ local[p].result.message = MsgPayPalError

\* C5: deliverOrder on an existing order that is not paid returns the failure
\* 'Order is not paid' and leaves the order as it was: not delivered,
\* deliveredAt unset.
C5_DeliverUnpaid ==
  \A p \in Procs :
    (Done(p, "deliverOrder") /\ local[p].order.exists /\ ~local[p].order.isPaid)
      => /\ local[p].result = [success |-> FALSE, message |-> MsgNotPaid]
         /\ local[p].wrote = {}
         /\ db.orders[local[p].orderId] = local[p].order
         /\ ~db.orders[local[p].orderId].isDelivered
         /\ db.orders[local[p].orderId].deliveredAt = 0

C5_Witness ==
  \E p \in Procs :
    /\ Done(p, "deliverOrder")
    /\ local[p].order.exists
    /\ ~local[p].order.isPaid
    /\ local[p].result.message = MsgNotPaid

\* C6: the step in which createOrder succeeds adds exactly one order row,
\* with one order item per line item of the cart it read, in the same order,
\* changes no other order and leaves the cart with no items and the four
\* prices zero.
C6_CreateOrderCommit ==
  [][\A p \in Procs :
       (pc[p] = "co_tx" /\ pc'[p] = "done" /\ local'[p].result.success)
         => LET id == local'[p].insertedId
                items == local[p].cart.items
            IN /\ id \in OrderIds
               /\ ~db.orders[id].exists
               /\ db'.orders[id].exists
               /\ \A o \in OrderIds \ {id} : db'.orders[o] = db.orders[o]
               /\ Len(db'.orders[id].orderitems) = Len(items)
               /\ \A k \in 1..Len(items) :
                    /\ db'.orders[id].orderitems[k].productId = items[k].productId
                    /\ db'.orders[id].orderitems[k].qty = items[k].qty
               /\ db'.cart.items = << >>
               /\ db'.cart.itemsPrice = 0
               /\ db'.cart.taxPrice = 0
               /\ db'.cart.shippingPrice = 0
               /\ db'.cart.totalPrice = 0]_vars

C6_Witness ==
  \E p \in Procs :
    /\ Done(p, "createOrder")
    /\ local[p].result.success
    /\ Len(local[p].cart.items) = 2
    /\ Len(db.orders[local[p].insertedId].orderitems) = 2
    /\ db.cart.items = << >>

\* C7: a createOrder that has failed has written nothing: the order row it
\* may have inserted and its items are not in the database and it has not
\* touched the cart; and no order is ever in the database without order items.
C7_CreateAllOrNothing ==
  /\ \A p \in Procs :
       (Done(p, "createOrder") /\ ~local[p].result.success)
         => /\ local[p].wrote = {}
            /\ (local[p].insertedId # 0 => ~db.orders[local[p].insertedId].exists)
  /\ \A o \in OrderIds : db.orders[o].exists => Len(db.orders[o].orderitems) >= 1

C7_Witness ==
  \E p \in Procs :
    /\ Done(p, "createOrder")
    /\ ~local[p].result.success
    /\ local[p].insertedId # 0
    /\ Len(local[p].cart.items) = 2
    /\ db.cart = local[p].cart

\* C8: an order that is delivered is paid.
C8_DeliveredIsPaid ==
  \A o \in OrderIds : (db.orders[o].exists /\ db.orders[o].isDelivered) => db.orders[o].isPaid

C8_Witness ==
  \E o \in OrderIds : db.orders[o].exists /\ db.orders[o].isDelivered /\ db.orders[o].deliveredAt > 0

\* C9: an order that is not paid has no paidAt.
C9_UnpaidHasNoPaidAt ==
  \A o \in OrderIds : (db.orders[o].exists /\ ~db.orders[o].isPaid) => db.orders[o].paidAt = 0

C9_Witness ==
  \E p \in Procs :
    /\ pc[p] = "done"
    /\ local[p].op \in PayOps
    /\ local[p].found.exists
    /\ ~local[p].result.success
    /\ db.orders[local[p].orderId].exists
    /\ ~db.orders[local[p].orderId].isPaid
    /\ db.orders[local[p].orderId].paidAt = 0

\* C10 (as claimed): an order that is paid has paidAt set and a paymentResult
\* attached, whichever trigger paid it.
C10_PaidHasResult ==
  \A o \in OrderIds :
    (db.orders[o].exists /\ db.orders[o].isPaid)
      => db.orders[o].paidAt # 0 /\ db.orders[o].paymentResult # NoPaymentResult

\* C10 (amended): an order that is paid has paidAt set; it has a
\* paymentResult attached if a PayPal capture paid it, and if only the manual
\* cash-on-delivery mark-as-paid did, its paymentResult is whatever
\* createPayPalOrder recorded before, null if nothing.
C10_PaidHasPaidAt ==
  \A o \in OrderIds :
    (db.orders[o].exists /\ db.orders[o].isPaid)
      => /\ db.orders[o].paidAt # 0
         /\ hist.paypalCommits[o] >= 1 => db.orders[o].paymentResult.id \in PayPalIds
         /\ db.orders[o].paymentResult = NoPaymentResult
              => (hist.paypalCommits[o] = 0 /\ hist.codCommits[o] >= 1)

C10_Witness ==
  \E o \in OrderIds :
    /\ db.orders[o].exists
    /\ db.orders[o].isPaid
    /\ hist.codCommits[o] = 1
    /\ db.orders[o].paymentResult = NoPaymentResult
    /\ db.orders[o].paidAt > 0

\* C11: no step moves an order backward: while the order exists, isPaid
\* once true stays true and isDelivered once true stays true.
C11_NoBackward ==
  [][\A o \in OrderIds :
       (db.orders[o].exists /\ db'.orders[o].exists)
         => /\ db.orders[o].isPaid => db'.orders[o].isPaid
            /\ db.orders[o].isDelivered => db'.orders[o].isDelivered]_vars

C11_Witness ==
  \E p \in Procs :
    /\ Done(p, "createPayPalOrder")
    /\ local[p].result.success
    /\ local[p].paidAtCall
    /\ db.orders[local[p].orderId].isPaid
    /\ db.orders[local[p].orderId].paymentResult.id = local[p].paypalId

\* the orders whose pay transaction has committed
Committed == {o \in OrderIds : hist.paypalCommits[o] + hist.codCommits[o] >= 1}

\* C12: when the pay transactions of different orders have committed, once
\* each, in whatever interleaving, no decrement is lost: the stock of every
\* product is the initial stock less the quantities of it in those orders.
C12_NoLostStockUpdate ==
  (\A o \in Committed : hist.paypalCommits[o] + hist.codCommits[o] = 1 /\ db.orders[o].exists)
    => \A prod \in Products :
         db.stock[prod] =
           InitStock - SumOver([o \in OrderIds |-> ItemQty(db.orders[o].orderitems, prod)], Committed)

C12_Witness ==
  \E o1, o2 \in OrderIds : \E prod \in Products :
    /\ o1 # o2
    /\ pc["r1"] = "uotp_refetch" /\ local["r1"].orderId = o1
    /\ pc["r2"] = "uotp_refetch" /\ local["r2"].orderId = o2
    /\ db.orders[o1].isPaid /\ db.orders[o2].isPaid
    /\ ItemQty(db.orders[o1].orderitems, prod) > 0
    /\ ItemQty(db.orders[o2].orderitems, prod) > 0
    /\ db.stock[prod] = InitStock - ItemQty(db.orders[o1].orderitems, prod)
                                  - ItemQty(db.orders[o2].orderitems, prod)

\* C13: the step in which createOrder ends on a precondition changes nothing
\* in the database (no order, no order item, the cart as it was) and returns
\* the failure of the first precondition that is not met, each with its own
\* message: no session 'User is not authenticated'; no cart or no items 'Your
\* cart is empty' with the redirect to /cart; no address 'Please add a
\* shipping address'; no payment method 'Please select a payment method'.
C13_CreateOrderPreconditions ==
  [][\A p \in Procs :
       (pc[p] = "idle" /\ pc'[p] = "done" /\ local'[p].op = "createOrder")
         => LET l == local'[p]
                empty == ~db.cart.exists \/ db.cart.items = << >>
            IN /\ db' = db
               /\ ~l.result.success
               /\ ~l.thrown
               /\ l.insertedId = 0
               /\ l.session = "absent"
                    => l.result.message = MsgNotAuthenticated /\ l.redirectTo = "none"
               /\ (l.session = "user" /\ empty)
                    => l.result.message = MsgEmptyCart /\ l.redirectTo = "/cart"
               /\ (l.session = "user" /\ ~empty /\ user.address = "null")
                    => l.result.message = MsgNoAddress /\ l.redirectTo = "/shipping-address"
               /\ (l.session = "user" /\ ~empty /\ user.address # "null" /\ user.paymentMethod = "null")
                    => l.result.message = MsgNoPaymentMethod /\ l.redirectTo = "/payment-method"
               /\ Cardinality({MsgNotAuthenticated, MsgEmptyCart, MsgNoAddress, MsgNoPaymentMethod}) = 4]_vars

C13_Witness ==
  \E p \in Procs :
    /\ Done(p, "createOrder")
    /\ local[p].session = "user"
    /\ Len(local[p].cart.items) >= 1
    /\ db.cart = local[p].cart
    /\ user.address = "null"
    /\ user.paymentMethod = "null"
    /\ local[p].result.message = MsgNoAddress
    /\ \A o \in OrderIds : ~db.orders[o].exists

\* C14 (as claimed): every change of an existing order is its isPaid going
\* from false to true or its isDelivered going from false to true.
C14_OnlyPayAndDeliver ==
  [][\A o \in OrderIds :
       (db.orders[o].exists /\ db'.orders[o].exists /\ db'.orders[o] # db.orders[o])
         => \/ ~db.orders[o].isPaid /\ db'.orders[o].isPaid
            \/ ~db.orders[o].isDelivered /\ db'.orders[o].isDelivered]_vars

\* C15 (as claimed): once an order is delivered no step changes any field of
\* it while it exists; deliveredAt stays what the first delivery set.
C15_DeliveredTerminal ==
  [][\A o \in OrderIds :
       (db.orders[o].exists /\ db.orders[o].isDelivered /\ db'.orders[o].exists)
         => db'.orders[o] = db.orders[o]]_vars

PriceFields(ord) == <<ord.itemsPrice, ord.taxPrice, ord.shippingPrice, ord.totalPrice>>

\* C16: no step changes any of the four price fields of an order that exists
\* before and after it, whatever the operation and whatever happens to the
\* cart.
C16_PricesFixed ==
  [][\A o \in OrderIds :
       (db.orders[o].exists /\ db'.orders[o].exists)
         => PriceFields(db'.orders[o]) = PriceFields(db.orders[o])]_vars

C16_Witness ==
  \E o \in OrderIds :
    /\ db.orders[o].exists
    /\ db.orders[o].isDelivered
    /\ db.orders[o].paymentResult.id \in PayPalIds
    /\ db.cart.items # << >>
    /\ db.cart.totalPrice # db.orders[o].totalPrice
    /\ db.orders[o].totalPrice = CalcPrice(db.orders[o].orderitems).totalPrice

CoreOps == {"createOrder", "createPayPalOrder", "approvePayPalOrder", "updateOrderToPaidByCOD", "deliverOrder"}

FailureReasons ==
  {MsgNotAuthenticated, MsgUserNotFound, MsgEmptyCart, MsgNoAddress, MsgNoPaymentMethod, MsgCurrency,
   MsgOrderNotFound, MsgAlreadyPaid, MsgNotPaid, MsgPayPalError, MsgProviderError, MsgPersistenceError}

\* C17: a request of createOrder, createPayPalOrder, approvePayPalOrder,
\* updateOrderToPaidByCOD or deliverOrder that is over has returned a result
\* {success, message} and thrown nothing to its caller; when it failed the
\* message is the reason of the failure.
C17_StructuredResult ==
  \A p \in Procs :
    (pc[p] = "done" /\ local[p].op \in CoreOps)
      => /\ ~local[p].thrown
         /\ local[p].result.success \in BOOLEAN
         /\ local[p].result.message # "none"
         /\ ~local[p].result.success => local[p].result.message \in FailureReasons
         /\ local[p].result.success => local[p].result.message \notin FailureReasons

C17_Witness ==
  \E p \in Procs :
    /\ Done(p, "deliverOrder")
    /\ local[p].order.isPaid
    /\ ~local[p].thrown
    /\ local[p].result = [success |-> FALSE, message |-> MsgPersistenceError]

\* C18: the step of createPayPalOrder or approvePayPalOrder in which the
\* provider call fails ends the request with the failure carrying the
\* provider's error, after one call of the provider, and changes no order and
\* no stock.
C18_ProviderFailure ==
  [][\A p \in Procs :
       (pc[p] # "done" /\ pc'[p] = "done" /\ local'[p].providerFailed)
         => /\ local'[p].op \in {"createPayPalOrder", "approvePayPalOrder"}
            /\ local'[p].result = [success |-> FALSE, message |-> MsgProviderError]
            /\ local'[p].providerCalls = 1
            /\ local'[p].wrote = {}
            /\ db'.orders = db.orders
            /\ db'.stock = db.stock]_vars

C18_Witness ==
  \E p \in Procs :
    /\ Done(p, "approvePayPalOrder")
    /\ local[p].providerFailed
    /\ local[p].order.paymentResult.id \in PayPalIds
    /\ db.orders[local[p].orderId] = local[p].order
    /\ ~db.orders[local[p].orderId].isPaid

\* C19: the step in which deliverOrder succeeds sets isDelivered and sets
\* deliveredAt to the time of the step, and changes nothing else: isPaid,
\* paidAt, paymentResult, the prices and the items of the order, the other
\* orders, the stock of every product and the cart are as before.
C19_DeliverFrame ==
  [][\A p \in Procs :
       (pc[p] = "do_update" /\ pc'[p] = "done" /\ local'[p].result.success)
         => LET o == local[p].orderId IN
            /\ db'.orders[o].isDelivered
            /\ db'.orders[o].deliveredAt = Now
            /\ db.orders[o].isPaid /\ db'.orders[o].isPaid
            /\ db'.orders[o].paidAt = db.orders[o].paidAt
            /\ db'.orders[o].paymentResult = db.orders[o].paymentResult
            /\ PriceFields(db'.orders[o]) = PriceFields(db.orders[o])
            /\ db'.orders[o].orderitems = db.orders[o].orderitems
            /\ \A o2 \in OrderIds \ {o} : db'.orders[o2] = db.orders[o2]
            /\ db'.stock = db.stock
            /\ db'.cart = db.cart]_vars

C19_Witness ==
  \E p \in Procs :
    /\ Done(p, "deliverOrder")
    /\ local[p].result.success
    /\ db.orders[local[p].orderId].isDelivered
    /\ db.orders[local[p].orderId].deliveredAt = Now
    /\ db.orders[local[p].orderId].paidAt > 0
    /\ db.orders[local[p].orderId].paidAt < Now
    /\ \E prod \in Products : db.stock[prod] < InitStock

\* the total is the sum of the three parts and all four have two decimals
TotalsExact(r) ==
  /\ Currency(r.itemsPrice) /\ Currency(r.taxPrice) /\ Currency(r.shippingPrice) /\ Currency(r.totalPrice)
  /\ r.totalPrice = r.itemsPrice + r.taxPrice + r.shippingPrice

PayInFlight(o) == {p \in Procs : pc[p] = "uotp_refetch" /\ local[p].orderId = o}

\* C21 (as claimed): sendPurchaseReceipt has been invoked once for every
\* order whose pay transaction has committed, as soon as the paying request
\* is over, and never for an order that was not paid.
C21_ReceiptOncePerPaidOrder ==
  \A o \in OrderIds :
    /\ (o \in Committed /\ PayInFlight(o) = {}) => hist.receipts[o] = 1
    /\ o \notin Committed => hist.receipts[o] = 0

\* C22 (as claimed): approvePayPalOrder has called paypal.capturePayment only
\* for an order that was not paid when it was called.
C22_NoCaptureWhenPaid ==
  \A p \in Procs :
    (local[p].op = "approvePayPalOrder" /\ local[p].providerCalls >= 1) => ~local[p].order.isPaid

\* C25 (as claimed): no step changes the paymentResult of an order that is
\* paid, while the order exists.
C25_PaymentResultFrozen ==
  [][\A o \in OrderIds :
       (db.orders[o].exists /\ db.orders[o].isPaid /\ db'.orders[o].exists)
         => db'.orders[o].paymentResult = db.orders[o].paymentResult]_vars

\* the quantity of prod in order o, which may have been deleted since it was
\* paid
PaidQty(o, prod) ==
  IF db.orders[o].exists THEN ItemQty(db.orders[o].orderitems, prod) ELSE hist.paidQty[o][prod]

\* C26 (as claimed): for every product the initial stock less the current
\* stock is the sum of its quantities in the orders that have been paid,
\* deleted ones included; nothing else moves the stock.
C26_StockConservation ==
  \A prod \in Products :
    InitStock - db.stock[prod] = SumOver([o \in OrderIds |-> PaidQty(o, prod)], Committed)

\* C27 (as claimed): createOrder creates an order only from a cart that still
\* has its content: of two calls that read the same cart the second to reach
\* its transaction finds the cart converted and cleared, creates nothing and
\* reports 'Your cart is empty'.
C27_OneOrderPerCart ==
  [][\A p \in Procs :
       (pc[p] = "co_tx" /\ pc'[p] = "done")
         => IF db.cart.items = << >>
            THEN /\ local'[p].result = [success |-> FALSE, message |-> MsgEmptyCart]
                 /\ db'.orders = db.orders
            ELSE TRUE]_vars

\* C29: the step in which createPayPalOrder, approvePayPalOrder,
\* updateOrderToPaidByCOD or deliverOrder is called with the id of no order
\* ends the request with the failure 'Order not found', changes no order and
\* no stock, and calls the provider not at all.
C29_OrderNotFound ==
  [][\A p \in Procs :
       (/\ pc[p] = "idle" /\ pc'[p] # "idle"
        /\ local'[p].op \in {"createPayPalOrder", "approvePayPalOrder", "updateOrderToPaidByCOD", "deliverOrder"}
        /\ ~db.orders[local'[p].orderId].exists)
         => /\ pc'[p] = "done"
            /\ local'[p].result = [success |-> FALSE, message |-> MsgOrderNotFound]
            /\ local'[p].providerCalls = 0
            /\ local'[p].wrote = {}
            /\ db'.orders = db.orders
            /\ db'.stock = db.stock]_vars

C29_Witness ==
  \E p \in Procs :
    /\ Done(p, "approvePayPalOrder")
    /\ ~db.orders[local[p].orderId].exists
    /\ local[p].result.message = MsgOrderNotFound
    /\ local[p].providerCalls = 0
    /\ \E o \in OrderIds : db.orders[o].exists

\* C30 (as claimed): the stock of every product is at least zero in every
\* state.
C30_StockNonNegative ==
  \A prod \in Products : db.stock[prod] >= 0

\* the paymentResult updateOrderToPaid is given for a capture
CapturedResult(capture) ==
  [id |-> capture.id, status |-> capture.status, email_address |-> "payer", pricePaid |-> "amount"]

\* C23: an approvePayPalOrder on an existing order whose capture is COMPLETED
\* with the id recorded on the order goes on to updateOrderToPaid, which on
\* an unpaid order goes on to the transaction; the step that commits it sets
\* isPaid, paidAt = now and paymentResult = the capture's id, status, payer
\* email and amount, takes from the stock of each product exactly the
\* quantity of it in the order, and changes nothing else; the request then
\* returns success.
C23_ValidConfirmation ==
  [][\A p \in Procs :
       LET l == local'[p]
           o == l.orderId
       IN l.op = "approvePayPalOrder" =>
          /\ (/\ pc[p] = "idle" /\ db.orders[o].exists /\ ~l.providerFailed
               /\ l.capture.status = "COMPLETED" /\ l.capture.id = db.orders[o].paymentResult.id)
                => pc'[p] = "uotp_find" /\ l.paymentResult = CapturedResult(l.capture)
          /\ (pc[p] = "uotp_find" /\ pc'[p] # pc[p] /\ db.orders[o].exists /\ ~db.orders[o].isPaid)
                => pc'[p] = "uotp_tx"
          /\ (pc[p] = "uotp_tx" /\ pc'[p] = "uotp_refetch")
                => /\ db'.orders[o] = [db.orders[o] EXCEPT !.isPaid = TRUE, !.paidAt = Now,
                                                           !.paymentResult = CapturedResult(l.capture)]
                   /\ \A o2 \in OrderIds \ {o} : db'.orders[o2] = db.orders[o2]
                   /\ \A prod \in Products :
                        db'.stock[prod] = db.stock[prod] - ItemQty(db.orders[o].orderitems, prod)
                   /\ db'.cart = db.cart
          /\ (pc[p] = "uotp_refetch" /\ pc'[p] # pc[p] /\ db.orders[o].exists)
                => pc'[p] = "done" /\ l.result = [success |-> TRUE, message |-> MsgPaidByPayPal]]_vars

C23_Witness ==
  \E p \in Procs :
    /\ Done(p, "approvePayPalOrder")
    /\ local[p].result.success
    /\ ~local[p].paidAtCall
    /\ db.orders[local[p].orderId].isPaid
    /\ db.orders[local[p].orderId].paymentResult = CapturedResult(local[p].capture)
    /\ db.orders[local[p].orderId].paidAt > 0
    /\ ItemQty(db.orders[local[p].orderId].orderitems, "p1") = 2
    /\ db.stock["p1"] = InitStock - 2
    /\ db.stock["p2"] = InitStock

\* C24 (as claimed): the step in which approvePayPalOrder marks an order paid
\* is taken only while a createPayPalOrder has recorded a provider order id
\* on that order and the captured id is the one recorded last; and an
\* approvePayPalOrder that reads an order with no paymentResult fails with
\* 'Error in paypal payment' whatever the capture, and changes no order and
\* no stock.
C24_RecordedIdRequired ==
  [][\A p \in Procs :
       LET l == local'[p]
           o == l.orderId
       IN l.op = "approvePayPalOrder" =>
            /\ (pc[p] = "uotp_tx" /\ pc'[p] = "uotp_refetch")
                  => hist.recorded[o] \in PayPalIds /\ l.capture.id = hist.recorded[o]
            /\ (pc[p] = "idle" /\ pc'[p] # "idle" /\ db.orders[o].exists
                  /\ db.orders[o].paymentResult = NoPaymentResult)
                  => /\ pc'[p] = "done"
                     /\ ~l.result.success
                     /\ l.capture # NoCapture => l.result.message = MsgPayPalError
                     /\ db' = db]_vars

\* C28: the order createOrder commits is a snapshot of the cart and the user
\* it read: createOrder reads the stored cart and the stored user; the
\* committed order has one OrderItem per cart line item, with that item's
\* product reference, quantity, name, slug, image and unit price, the four
\* prices of the cart, the session user as its user, and the user's stored
\* shipping address and payment method; and no later step (pay, deliver, a
\* change of the cart or of the user) changes the OrderItems, the user, the
\* shipping address or the payment method of an order.
C28_FaithfulSnapshot ==
  [][/\ \A p \in Procs :
          LET l == local'[p] IN
          /\ (pc[p] = "idle" /\ pc'[p] = "co_tx" /\ l.op = "createOrder")
                => l.cart = db.cart /\ l.usr = user
          /\ (pc[p] = "co_tx" /\ pc'[p] = "done" /\ l.result.success)
                => LET row == db'.orders[l.insertedId]
                       cart == local[p].cart
                   IN /\ ~db.orders[l.insertedId].exists
                      /\ row.exists
                      /\ Len(row.orderitems) = Len(cart.items)
                      /\ \A j \in 1..Len(cart.items) :
                           /\ row.orderitems[j].productId = cart.items[j].productId
                           /\ row.orderitems[j].qty = cart.items[j].qty
                           /\ row.orderitems[j].name = cart.items[j].name
                           /\ row.orderitems[j].slug = cart.items[j].slug
                           /\ row.orderitems[j].image = cart.items[j].image
                           /\ row.orderitems[j].price = cart.items[j].price
                      /\ PriceFields(row) = PriceFields(cart)
                      /\ row.userId = SessionUser
                      /\ row.shippingAddress = local[p].usr.address
                      /\ row.paymentMethod = local[p].usr.paymentMethod
     /\ \A o \in OrderIds :
          (db.orders[o].exists /\ db'.orders[o].exists)
             => /\ db'.orders[o].orderitems = db.orders[o].orderitems
                /\ db'.orders[o].userId = db.orders[o].userId
                /\ db'.orders[o].shippingAddress = db.orders[o].shippingAddress
                /\ db'.orders[o].paymentMethod = db.orders[o].paymentMethod]_vars

\* an order of two units, paid and delivered after the user moved
C28_Witness ==
  \E o \in OrderIds :
    /\ db.orders[o].exists
    /\ db.orders[o].isPaid
    /\ db.orders[o].isDelivered
    /\ Len(db.orders[o].orderitems) = 1
    /\ db.orders[o].orderitems[1] = [productId |-> "p1", qty |-> 2, price |-> Price("p1"),
                                     name |-> <<"name", "p1">>, slug |-> <<"slug", "p1">>,
                                     image |-> <<"image", "p1">>]
    /\ db.orders[o].userId = SessionUser
    /\ db.orders[o].shippingAddress = "a1"
    /\ db.orders[o].paymentMethod = "PayPal"
    /\ user.address = "a2"

====
